---- MODULE Spec2Model ----
(***************************************************************************)
(* A model of the twodeeparticles particle system (system.go, particle.go).*)
(*                                                                         *)
(* Time is counted in ticks of half a second (Second == 2 ticks), so that  *)
(* rate * delta.Seconds() is a whole number of half particles: the         *)
(* emission accumulator, positions and angles are kept multiplied by       *)
(* Second (particlesToEmit = 2 means one whole particle).                  *)
(*                                                                         *)
(* Update and Reset are executed statement by statement: pc is the         *)
(* position of the running call, and the host's operations (Spawn, Kill,   *)
(* Update, Reset) are enabled only while no call is running (pc = "idle"). *)
(* The callbacks of the host are observers: what DeathFunc can see when it *)
(* is invoked is recorded in deathSeen.                                    *)
(***************************************************************************)
EXTENDS Integers, Sequences, FiniteSets, TLC

\* ------------------------------------------------------------- bounds
\* the host's clock runs from tick 0 to tick MaxTime
MaxTime == 2
\* Spawn requests are accepted while the accumulator stays within MaxParticles
\* plus MaxExtra whole particles
MaxExtra == 1
\* the passes of one Update are counted up to MaxPasses
MaxPasses == 3
\* ticks in time.Second
Second == 2

Times == 0..MaxTime
\* the values of MaxParticles the host configures, and the identities of the
\* particle objects
Capacities == {-1, 0, 1, 2}
ObjIds == {c \in Capacities : c >= 1}

\* ------------------------------------------------------------- values
None == <<>>
Some(v) == <<v>>
IsSet(f) == f # None
Val(f) == f[1]

White == "white"
TestColor == "rgba(12,23,34,45)"

\* A *Particle right after newParticle(s): every field but color is Go's zero value.
newParticle ==
  [lifetime |-> 0, birthTime |-> 0, deathTime |-> 0, lastUpdateTime |-> 0,
   isAlive |-> FALSE, data |-> None, x |-> 0, y |-> 0,
   xVelocity |-> 0, yVelocity |-> 0, xScale |-> 0, yScale |-> 0,
   angle |-> 0, color |-> White]

\* ------------------------------------------------------------- configuration
\* The exported fields of ParticleSystem, set by the host after NewSystem.
\* Behaviour functions are constant functions; an unset (nil) one is None.
\* UpdateFunc is "nil", "killAged" (Kill when t > 0) or "killAll" (Kill always);
\* "killOld" (Kill when t > 0.5) is the UpdateFunc of HalfLifeSpec.
Lifecycles ==
  [MaxParticles : Capacities,
   EmissionRateOverTime : {None, Some(1), Some(2)},
   LifetimeOverTime : {None, Some(0), Some(1), Some(3)},
   UpdateFunc : {"nil", "killAged", "killAll"}]

BareProfile ==
  [DeathFunc |-> TRUE, DataOverLifetime |-> None, EmissionPositionOverTime |-> None,
   VelocityOverLifetime |-> None, ScaleOverLifetime |-> None,
   ColorOverLifetime |-> None, RotationOverLifetime |-> None]

\* the functions of TestParticle_Update
TestProfile ==
  [DeathFunc |-> TRUE, DataOverLifetime |-> Some("data"),
   EmissionPositionOverTime |-> Some(<<17, 23>>),
   VelocityOverLifetime |-> Some(<<3, 5>>), ScaleOverLifetime |-> Some(<<7, 11>>),
   ColorOverLifetime |-> Some(TestColor), RotationOverLifetime |-> Some(1)]

\* a constant angular velocity alone: half a turn a tick, and more than a turn a
\* tick in either direction
SpinProfile(r) == [BareProfile EXCEPT !.RotationOverLifetime = Some(r)]
Spins == {2, 5, -5}

Profiles ==
  {BareProfile, TestProfile, [BareProfile EXCEPT !.DeathFunc = FALSE]}
    \cup {SpinProfile(r) : r \in Spins}

Merge(l, p) ==
  [MaxParticles |-> l.MaxParticles, EmissionRateOverTime |-> l.EmissionRateOverTime,
   LifetimeOverTime |-> l.LifetimeOverTime, UpdateFunc |-> l.UpdateFunc,
   DeathFunc |-> p.DeathFunc, DataOverLifetime |-> p.DataOverLifetime,
   EmissionPositionOverTime |-> p.EmissionPositionOverTime,
   VelocityOverLifetime |-> p.VelocityOverLifetime,
   ScaleOverLifetime |-> p.ScaleOverLifetime,
   ColorOverLifetime |-> p.ColorOverLifetime,
   RotationOverLifetime |-> p.RotationOverLifetime]

\* the particles of c move or turn
Moves(c) == IsSet(c.VelocityOverLifetime) \/ IsSet(c.RotationOverLifetime)

\* with room for two particles, fewer combinations of the other fields; particles
\* that outlive the clock, and particles that only spin, are those of a system with
\* room for one, fed by Spawn alone and without UpdateFunc
Narrow(c) ==
  /\ c.MaxParticles >= 2 =>
        /\ c.DeathFunc
        /\ c.EmissionRateOverTime \in {None, Some(2)}
        /\ c.LifetimeOverTime \in {None, Some(1)}
        /\ c.UpdateFunc \in {"nil", "killAged"}
        /\ IsSet(c.DataOverLifetime) =>
              /\ c.EmissionRateOverTime = Some(2)
              /\ c.LifetimeOverTime = None
              /\ c.UpdateFunc = "killAged"
  /\ (c.LifetimeOverTime = Some(3) \/ (Moves(c) /\ ~IsSet(c.DataOverLifetime))) =>
        /\ c.MaxParticles = 1
        /\ c.EmissionRateOverTime = None
        /\ c.LifetimeOverTime = Some(3)
        /\ c.UpdateFunc = "nil"
        /\ Moves(c)

Configs == {c \in {Merge(l, p) : l \in Lifecycles, p \in Profiles} : Narrow(c)}

\* ------------------------------------------------------------- state
VARIABLES
  cfg,              \* the exported fields of the ParticleSystem
  initDone,         \* initOnce has run
  particles,        \* sys.particles: the live set, a sequence of object ids
  pool,             \* sys.pool: the objects Put and not yet taken by Get
  heap,             \* the fields of every *Particle object
  startTime,        \* sys.startTime
  lastUpdateTime,   \* sys.lastUpdateTime
  particlesToEmit,  \* sys.particlesToEmit, times Second
  now,              \* the host's clock: the argument of the running or last Update
  pc,               \* position of the running call: "idle", "reclaim", "emit", "advance"
  rnow,             \* the argument of the running removeDeadParticles
  idx,              \* loop index of removeDeadParticles / updateParticles (1-based)
  needsMorePasses,  \* the local of updateParticles
  call,             \* history: the running or just returned call and the state it started in
  deathSeen,        \* history: what the DeathFunc invoked by the last step could observe
  justSpawned,      \* history: the object the last step spawned
  callDeaths,       \* history: DeathFunc invocations per object in the running call (saturates at 2)
  lifeDeaths,       \* history: DeathFunc invocations per object since it was last spawned (saturates at 2)
  passes,           \* history: the pass the running or just returned Update is in (saturates at MaxPasses)
  advanced          \* history: the particle the last step advanced, as it was, and the calls made

vars == <<cfg, initDone, particles, pool, heap, startTime, lastUpdateTime,
          particlesToEmit, now, pc, rnow, idx, needsMorePasses,
          call, deathSeen, justSpawned, callDeaths, lifeDeaths, passes, advanced>>

\* no call is recorded. A recorded call has: op, the operation; arg, its argument;
\* first, whether it ran init; emit, delta, live, killed, due: the accumulator, now
\* minus sys.lastUpdateTime, the live set, the particles of it with isAlive unset and
\* those with deathTime not after the argument, all at the call; refused and spawns: whether a spawnParticle of the call was refused,
\* and how many were not (counted up to MaxEmit); dead and prevDead: the particles
\* updateParticles has found dead in the running pass and in the pass before;
\* credited: what spawnParticles added for the rate in the running pass, and total:
\* what it added in the passes of the call before pass MaxPasses; survivors: the
\* particles the pass before left alive; visits: the calls of the visitor; result: the value returned
NoCall ==
  [op |-> "none", arg |-> 0, first |-> FALSE, emit |-> 0, delta |-> 0, live |-> <<>>,
   killed |-> {}, due |-> {}, refused |-> FALSE, spawns |-> 0, dead |-> 0,
   prevDead |-> 0, credited |-> 0, total |-> 0, survivors |-> {}, visits |-> <<>>, result |-> 0]
NoCounts == [o \in ObjIds |-> 0]
Bump(f, o) == [f EXCEPT ![o] = IF @ < 2 THEN @ + 1 ELSE 2]

\* ------------------------------------------------------------- helpers
RECURSIVE SeqToSet(_)
SeqToSet(s) == IF s = <<>> THEN {} ELSE {Head(s)} \cup SeqToSet(Tail(s))

\* append(s[:i], s[i+1:]...) for the 1-based index i
RemoveAt(s, i) == SubSeq(s, 1, i - 1) \o SubSeq(s, i + 1, Len(s))

Min(S) == CHOOSE m \in S : \A n \in S : m <= n

\* Particle.duration
duration(p, t) == t - p.birthTime

\* alive without the flag
aliveByTimeOnly(p, t) == p.deathTime > t

\* alive with the boundary deathTime = now counted as alive
aliveAtBoundary(p, t) == p.isAlive /\ p.deathTime >= t

\* alive without the comparison with deathTime
aliveFlagOnly(p, t) == p.isAlive

\* Particle.alive
alive(p, t) == p.isAlive /\ p.deathTime > t

\* ParticleSystem.Duration
Duration(t) == t - startTime

\* ParticleSystem.NumParticles
NumParticles == Len(particles)

\* NormalizedDuration(d.Seconds() / p.lifetime.Seconds()) > 0.5, for a lifetime that
\* is not negative
PastHalf(num, den) == 2 * num > den

\* t >= 0 where the UpdateFunc of the tests has t > 0
NonNegativeQuotient(num, den) ==
  \/ num >= 0 /\ den > 0
  \/ num <= 0 /\ den < 0
  \/ num > 0 /\ den = 0

\* NormalizedDuration(d.Seconds() / p.lifetime.Seconds()) > 0 in float64:
\* x/0 is +Inf for x > 0, NaN for x = 0 and -Inf for x < 0.
PositiveQuotient(num, den) ==
  \/ num > 0 /\ den >= 0
  \/ num < 0 /\ den < 0

\* reset without isAlive = true
resetKeepsDead(p) ==
  [p EXCEPT !.data = None, !.x = 0, !.y = 0,
            !.xVelocity = 0, !.yVelocity = 0, !.xScale = 1, !.yScale = 1,
            !.color = White]

\* Particle.reset
reset(p) ==
  [p EXCEPT !.isAlive = TRUE, !.data = None, !.x = 0, !.y = 0,
            !.xVelocity = 0, !.yVelocity = 0, !.xScale = 1, !.yScale = 1,
            !.color = White]

\* Kill that leaves the flag alone
KillNoop(p) == p

\* Particle.Kill
KillParticle(p) == [p EXCEPT !.isAlive = FALSE]

\* the wrap of the angle in Particle.update; angles are counted in eighths of a
\* turn per Second, so that 2.0*math.Pi is TwoPi units
TwoPi == 4
WrapAngle(a) == IF a > TwoPi THEN a - TwoPi ELSE IF a < 0 THEN a + TwoPi ELSE a

\* update adding velocity times the particle's age, not times the frame delta
updateIntegratesAge(p, t) ==
  LET d == duration(p, t)
      kill == \/ cfg.UpdateFunc = "killAll"
              \/ cfg.UpdateFunc = "killAged" /\ PositiveQuotient(d, p.lifetime)
              \/ cfg.UpdateFunc = "killOld" /\ PastHalf(d, p.lifetime)
      p1 == IF kill THEN KillParticle(p) ELSE p
      p2 == IF IsSet(cfg.DataOverLifetime)
              THEN [p1 EXCEPT !.data = cfg.DataOverLifetime] ELSE p1
      p3 == IF IsSet(cfg.VelocityOverLifetime)
              THEN [p2 EXCEPT !.xVelocity = Val(cfg.VelocityOverLifetime)[1],
                              !.yVelocity = Val(cfg.VelocityOverLifetime)[2]]
              ELSE p2
  IN [p3 EXCEPT !.x = @ + p3.xVelocity * d, !.y = @ + p3.yVelocity * d,
                !.lastUpdateTime = t]

\* the call of the behaviour function fn, which can observe the particle as p
FnCall(isSet, fn, p) == IF isSet THEN <<[fn |-> fn, sees |-> p]>> ELSE <<>>

\* update returning from Particle.update as soon as UpdateFunc has killed the particle
updateStopsAtKill(p, t) ==
  LET d == duration(p, t)
      delta == t - p.lastUpdateTime
      kill == \/ cfg.UpdateFunc = "killAll"
              \/ cfg.UpdateFunc = "killAged" /\ PositiveQuotient(d, p.lifetime)
              \/ cfg.UpdateFunc = "killOld" /\ PastHalf(d, p.lifetime)
      p1 == IF kill THEN KillParticle(p) ELSE p
      p2 == IF IsSet(cfg.DataOverLifetime)
              THEN [p1 EXCEPT !.data = cfg.DataOverLifetime] ELSE p1
      p3 == IF IsSet(cfg.VelocityOverLifetime)
              THEN [p2 EXCEPT !.xVelocity = Val(cfg.VelocityOverLifetime)[1],
                              !.yVelocity = Val(cfg.VelocityOverLifetime)[2]]
              ELSE p2
      p4 == [p3 EXCEPT !.x = @ + p3.xVelocity * delta, !.y = @ + p3.yVelocity * delta]
      p5 == IF IsSet(cfg.ScaleOverLifetime)
              THEN [p4 EXCEPT !.xScale = Val(cfg.ScaleOverLifetime)[1],
                              !.yScale = Val(cfg.ScaleOverLifetime)[2]]
              ELSE p4
      p6 == IF IsSet(cfg.RotationOverLifetime)
              THEN [p5 EXCEPT !.angle = WrapAngle(@ + Val(cfg.RotationOverLifetime) * delta)]
              ELSE p5
      p7 == IF IsSet(cfg.ColorOverLifetime)
              THEN [p6 EXCEPT !.color = Val(cfg.ColorOverLifetime)] ELSE p6
  IN IF kill
       THEN [log |-> FnCall(TRUE, "UpdateFunc", p),
             final |-> [p1 EXCEPT !.lastUpdateTime = t]]
       ELSE [log |-> FnCall(cfg.UpdateFunc # "nil", "UpdateFunc", p)
                       \o FnCall(IsSet(cfg.DataOverLifetime), "DataOverLifetime", p1)
                       \o FnCall(IsSet(cfg.VelocityOverLifetime), "VelocityOverLifetime", p2)
                       \o FnCall(IsSet(cfg.ScaleOverLifetime), "ScaleOverLifetime", p4)
                       \o FnCall(IsSet(cfg.RotationOverLifetime), "RotationOverLifetime", p5)
                       \o FnCall(IsSet(cfg.ColorOverLifetime), "ColorOverLifetime", p6),
             final |-> [p7 EXCEPT !.lastUpdateTime = t]]

\* the statements of Particle.update(now) with the configured behaviour functions:
\* the calls it makes, in order, and the particle when the deferred function has run
updateStages(p, t) ==
  LET d == duration(p, t)
      delta == t - p.lastUpdateTime
      kill == \/ cfg.UpdateFunc = "killAll"
              \/ cfg.UpdateFunc = "killAged" /\ PositiveQuotient(d, p.lifetime)
              \/ cfg.UpdateFunc = "killOld" /\ PastHalf(d, p.lifetime)
      p1 == IF kill THEN KillParticle(p) ELSE p
      p2 == IF IsSet(cfg.DataOverLifetime)
              THEN [p1 EXCEPT !.data = cfg.DataOverLifetime] ELSE p1
      p3 == IF IsSet(cfg.VelocityOverLifetime)
              THEN [p2 EXCEPT !.xVelocity = Val(cfg.VelocityOverLifetime)[1],
                              !.yVelocity = Val(cfg.VelocityOverLifetime)[2]]
              ELSE p2
      p4 == [p3 EXCEPT !.x = @ + p3.xVelocity * delta, !.y = @ + p3.yVelocity * delta]
      p5 == IF IsSet(cfg.ScaleOverLifetime)
              THEN [p4 EXCEPT !.xScale = Val(cfg.ScaleOverLifetime)[1],
                              !.yScale = Val(cfg.ScaleOverLifetime)[2]]
              ELSE p4
      p6 == IF IsSet(cfg.RotationOverLifetime)
              THEN [p5 EXCEPT !.angle = WrapAngle(@ + Val(cfg.RotationOverLifetime) * delta)]
              ELSE p5
      p7 == IF IsSet(cfg.ColorOverLifetime)
              THEN [p6 EXCEPT !.color = Val(cfg.ColorOverLifetime)] ELSE p6
  IN [log |-> FnCall(cfg.UpdateFunc # "nil", "UpdateFunc", p)
                \o FnCall(IsSet(cfg.DataOverLifetime), "DataOverLifetime", p1)
                \o FnCall(IsSet(cfg.VelocityOverLifetime), "VelocityOverLifetime", p2)
                \o FnCall(IsSet(cfg.ScaleOverLifetime), "ScaleOverLifetime", p4)
                \o FnCall(IsSet(cfg.RotationOverLifetime), "RotationOverLifetime", p5)
                \o FnCall(IsSet(cfg.ColorOverLifetime), "ColorOverLifetime", p6),
      final |-> [p7 EXCEPT !.lastUpdateTime = t]]

\* Particle.update(now): the particle it leaves
update(p, t) == updateStages(p, t).final

\* spawnParticle without part.lastUpdateTime = now
spawnedStaleUpdateTime(p, t) ==
  LET p1 == reset(p)
      lifetime == IF IsSet(cfg.LifetimeOverTime) THEN Val(cfg.LifetimeOverTime) ELSE Second
      p2 == [p1 EXCEPT !.lifetime = lifetime, !.birthTime = t, !.deathTime = t + lifetime]
  IN IF IsSet(cfg.EmissionPositionOverTime)
       THEN [p2 EXCEPT !.x = Val(cfg.EmissionPositionOverTime)[1] * Second,
                       !.y = Val(cfg.EmissionPositionOverTime)[2] * Second]
       ELSE p2

\* spawnParticle without part.deathTime = now.Add(part.lifetime)
spawnedNoDeathTime(p, t) ==
  LET p1 == reset(p)
      lifetime == IF IsSet(cfg.LifetimeOverTime) THEN Val(cfg.LifetimeOverTime) ELSE Second
      p2 == [p1 EXCEPT !.lifetime = lifetime, !.birthTime = t, !.lastUpdateTime = t]
  IN IF IsSet(cfg.EmissionPositionOverTime)
       THEN [p2 EXCEPT !.x = Val(cfg.EmissionPositionOverTime)[1] * Second,
                       !.y = Val(cfg.EmissionPositionOverTime)[2] * Second]
       ELSE p2

\* the fields spawnParticle gives the object it took from the pool
spawned(p, t) ==
  LET p1 == reset(p)
      lifetime == IF IsSet(cfg.LifetimeOverTime) THEN Val(cfg.LifetimeOverTime) ELSE Second
      p2 == [p1 EXCEPT !.lifetime = lifetime, !.birthTime = t,
                       !.deathTime = t + lifetime, !.lastUpdateTime = t]
  IN IF IsSet(cfg.EmissionPositionOverTime)
       THEN [p2 EXCEPT !.x = Val(cfg.EmissionPositionOverTime)[1] * Second,
                       !.y = Val(cfg.EmissionPositionOverTime)[2] * Second]
       ELSE p2

\* sys.pool.Get(): any pooled object, or a new one from New (Get may ignore the
\* pool). New never fails; the objects are numbered in order of allocation, and
\* the objects kept are bounded by the larger of MaxParticles and the size the
\* live set is about to have.
FreeIds ==
  {o \in ObjIds : o <= cfg.MaxParticles \/ o <= Len(particles) + 1}
    \ (SeqToSet(particles) \cup pool)
PoolGet == pool \cup (IF FreeIds = {} THEN {} ELSE {Min(FreeIds)})

\* the accumulator is capped at this many whole particles by the guard of Spawn
MaxEmit == (IF cfg.MaxParticles > 0 THEN cfg.MaxParticles ELSE 0) + MaxExtra

\* ------------------------------------------------------------- construction
\* NewSystem(): the fields of a new ParticleSystem but the exported ones
NewSystem ==
  /\ initDone = FALSE
  /\ particles = <<>>
  /\ pool = {}
  /\ heap = [o \in ObjIds |-> newParticle]
  /\ startTime = 0
  /\ lastUpdateTime = 0
  /\ particlesToEmit = 0
  /\ now = 0
  /\ pc = "idle"
  /\ rnow = 0
  /\ idx = 0
  /\ needsMorePasses = FALSE
  /\ call = NoCall
  /\ deathSeen = None
  /\ justSpawned = None
  /\ callDeaths = NoCounts
  /\ lifeDeaths = NoCounts
  /\ passes = 0
  /\ advanced = None

Init == cfg \in Configs /\ NewSystem

\* ------------------------------------------------------------- host operations
Idle == pc = "idle"

\* the history a step leaves alone unless it invokes DeathFunc or spawns
Quiet == deathSeen' = None /\ justSpawned' = None /\ advanced' = None

\* ParticleSystem.Spawn(num)
Spawn(num) ==
  /\ Idle
  /\ particlesToEmit + num * Second <= MaxEmit * Second
  /\ particlesToEmit' = particlesToEmit + num * Second
  /\ call' = [NoCall EXCEPT !.op = "Spawn", !.arg = num]
  /\ callDeaths' = NoCounts
  /\ Quiet
  /\ passes' = 0
  /\ UNCHANGED <<cfg, initDone, particles, pool, heap, startTime, lastUpdateTime,
                 now, pc, rnow, idx, needsMorePasses, lifeDeaths>>

\* Spawn(num) with a negative num: the accumulator is kept above minus MaxEmit particles
SpawnNegative(num) ==
  /\ num < 0
  /\ particlesToEmit + num * Second >= -(MaxEmit * Second)
  /\ Spawn(num)

\* Particle.Kill() called by the host on a particle of the live set
Kill(o) ==
  /\ Idle
  /\ o \in SeqToSet(particles)
  /\ heap[o].isAlive
  /\ heap' = [heap EXCEPT ![o] = KillParticle(@)]
  /\ call' = NoCall
  /\ callDeaths' = NoCounts
  /\ Quiet
  /\ passes' = 0
  /\ UNCHANGED <<cfg, initDone, particles, pool, startTime, lastUpdateTime,
                 particlesToEmit, now, pc, rnow, idx, needsMorePasses, lifeDeaths>>

\* the call fun(p, t, delta) of ForEachParticle(fun, now) for the particle o: the
\* particle, the quotient t as <<d, lifetime>>, and delta
Visit(o, t) ==
  [p |-> o, age |-> <<duration(heap[o], t), heap[o].lifetime>>,
   delta |-> t - lastUpdateTime]

\* the visitor called for the particles with alive(now) only
VisitsOfAlive(t) ==
  LET seen == SelectSeq(particles, LAMBDA o : alive(heap[o], t))
  IN [i \in 1..Len(seen) |-> Visit(seen[i], t)]

\* the calls of the visitor made by the loop of ForEachParticle(fun, now)
Visits(t) == [i \in 1..Len(particles) |-> Visit(particles[i], t)]

\* ForEachParticle storing now in the lastUpdateTime of the particles it visits
ForEachParticleTouching(t) ==
  /\ Idle
  /\ t >= now
  /\ call' = [NoCall EXCEPT !.op = "ForEachParticle", !.arg = t, !.visits = Visits(t)]
  /\ heap' = [o \in ObjIds |->
                IF o \in SeqToSet(particles)
                  THEN [heap[o] EXCEPT !.lastUpdateTime = t] ELSE heap[o]]
  /\ callDeaths' = NoCounts
  /\ Quiet
  /\ passes' = 0
  /\ UNCHANGED <<cfg, initDone, particles, pool, startTime, lastUpdateTime,
                 particlesToEmit, now, pc, rnow, idx, needsMorePasses, lifeDeaths>>

\* ParticleSystem.ForEachParticle(fun, now) with a visitor that only reads
ForEachParticle(t) ==
  /\ Idle
  /\ t >= now
  /\ call' = [NoCall EXCEPT !.op = "ForEachParticle", !.arg = t, !.visits = Visits(t)]
  /\ callDeaths' = NoCounts
  /\ Quiet
  /\ passes' = 0
  /\ UNCHANGED <<cfg, initDone, particles, pool, heap, startTime, lastUpdateTime,
                 particlesToEmit, now, pc, rnow, idx, needsMorePasses, lifeDeaths>>

\* ParticleSystem.NumParticles() called by the host
NumParticlesCall ==
  /\ Idle
  /\ call' = [NoCall EXCEPT !.op = "NumParticles", !.result = NumParticles]
  /\ callDeaths' = NoCounts
  /\ Quiet
  /\ passes' = 0
  /\ UNCHANGED <<cfg, initDone, particles, pool, heap, startTime, lastUpdateTime,
                 particlesToEmit, now, pc, rnow, idx, needsMorePasses, lifeDeaths>>

\* ParticleSystem.Duration(now) called by the host
DurationCall(t) ==
  /\ Idle
  /\ t >= now
  /\ call' = [NoCall EXCEPT !.op = "Duration", !.arg = t, !.result = Duration(t)]
  /\ callDeaths' = NoCounts
  /\ Quiet
  /\ passes' = 0
  /\ UNCHANGED <<cfg, initDone, particles, pool, heap, startTime, lastUpdateTime,
                 particlesToEmit, now, pc, rnow, idx, needsMorePasses, lifeDeaths>>

\* Update running init at every call
UpdateCallReinit(t) ==
  /\ Idle
  /\ t >= now
  /\ now' = t
  /\ initDone' = TRUE
  /\ startTime' = t
  /\ lastUpdateTime' = t
  /\ pc' = "reclaim"
  /\ rnow' = t
  /\ idx' = Len(particles)
  /\ needsMorePasses' = FALSE
  /\ call' = [NoCall EXCEPT
                !.op = "Update", !.arg = t, !.first = ~initDone,
                !.emit = particlesToEmit,
                !.delta = IF initDone THEN t - lastUpdateTime ELSE 0,
                !.live = particles,
                !.killed = {o \in SeqToSet(particles) : ~heap[o].isAlive},
                !.due = {o \in SeqToSet(particles) : heap[o].deathTime <= t}]
  /\ callDeaths' = NoCounts
  /\ Quiet
  /\ passes' = 1
  /\ UNCHANGED <<cfg, particles, pool, heap, particlesToEmit, lifeDeaths>>

\* ParticleSystem.Update(now), up to the first removeDeadParticles: initOnce.Do(init)
UpdateEnter(t) ==
  /\ Idle
  /\ now' = t
  /\ initDone' = TRUE
  /\ startTime' = IF initDone THEN startTime ELSE t
  /\ lastUpdateTime' = IF initDone THEN lastUpdateTime ELSE t
  /\ pc' = "reclaim"
  /\ rnow' = t
  /\ idx' = Len(particles)
  /\ needsMorePasses' = FALSE
  /\ call' = [NoCall EXCEPT
                !.op = "Update", !.arg = t, !.first = ~initDone,
                !.emit = particlesToEmit,
                !.delta = IF initDone THEN t - lastUpdateTime ELSE 0,
                !.live = particles,
                !.killed = {o \in SeqToSet(particles) : ~heap[o].isAlive},
                !.due = {o \in SeqToSet(particles) : heap[o].deathTime <= t}]
  /\ callDeaths' = NoCounts
  /\ Quiet
  /\ passes' = 1
  /\ UNCHANGED <<cfg, particles, pool, heap, particlesToEmit, lifeDeaths>>

\* Update(t) of a host whose clock does not go back
UpdateCall(t) == t >= now /\ UpdateEnter(t)

\* Update(t) with t before the time of the Update before it
UpdateRewind(t) == t < now /\ UpdateEnter(t)

\* ParticleSystem.Reset(), up to removeDeadParticles(time.Now()): every particle is
\* killed; w is the wall clock
ResetCall(w) ==
  /\ Idle
  /\ heap' = [o \in ObjIds |->
                IF o \in SeqToSet(particles) THEN KillParticle(heap[o]) ELSE heap[o]]
  /\ pc' = "reclaim"
  /\ rnow' = w
  /\ idx' = Len(particles)
  /\ needsMorePasses' = FALSE
  /\ call' = [NoCall EXCEPT !.op = "Reset", !.arg = w, !.emit = particlesToEmit,
                              !.live = particles]
  /\ callDeaths' = NoCounts
  /\ Quiet
  /\ passes' = 0
  /\ UNCHANGED <<cfg, initDone, particles, pool, startTime, lastUpdateTime,
                 particlesToEmit, now, lifeDeaths>>

\* ------------------------------------------------------------- removeDeadParticles
\* what DeathFunc(part) can observe when it is invoked with the live set `live` and
\* the pool `pooled`: NumParticles(), whether ForEachParticle visits part, whether
\* part is in the pool; was is NumParticles() before removeDeadParticles reached part
DeathFuncCall(part, live, pooled) ==
  Some([p |-> part, was |-> Len(particles), num |-> Len(live),
        inLive |-> part \in SeqToSet(live), inPool |-> part \in pooled])

\* removeDeadParticles without the removal from sys.particles
removeDeadKeep(i) ==
  LET part == particles[i]
      pooled == pool \cup {part}
  IN /\ particles' = particles
     /\ pool' = pooled
     /\ IF cfg.DeathFunc
          THEN /\ deathSeen' = DeathFuncCall(part, particles, pooled)
               /\ callDeaths' = Bump(callDeaths, part)
               /\ lifeDeaths' = Bump(lifeDeaths, part)
          ELSE /\ deathSeen' = None
               /\ UNCHANGED <<callDeaths, lifeDeaths>>

\* removeDeadParticles invoking DeathFunc before the removal and the Put
removeDeadNotifyFirst(i) ==
  LET part == particles[i]
      live == RemoveAt(particles, i)
      pooled == pool \cup {part}
  IN /\ particles' = live
     /\ pool' = pooled
     /\ IF cfg.DeathFunc
          THEN /\ deathSeen' = DeathFuncCall(part, particles, pool)
               /\ callDeaths' = Bump(callDeaths, part)
               /\ lifeDeaths' = Bump(lifeDeaths, part)
          ELSE /\ deathSeen' = None
               /\ UNCHANGED <<callDeaths, lifeDeaths>>

\* one iteration of the loop of removeDeadParticles, on the dead particle at idx
removeDead(i) ==
  LET part == particles[i]
      live == RemoveAt(particles, i)
      pooled == pool \cup {part}
  IN /\ particles' = live
     /\ pool' = pooled
     /\ IF cfg.DeathFunc
          THEN /\ deathSeen' = DeathFuncCall(part, live, pooled)
               /\ callDeaths' = Bump(callDeaths, part)
               /\ lifeDeaths' = Bump(lifeDeaths, part)
          ELSE /\ deathSeen' = None
               /\ UNCHANGED <<callDeaths, lifeDeaths>>

RemoveDeadStep ==
  /\ pc = "reclaim"
  /\ idx >= 1
  /\ IF alive(heap[particles[idx]], rnow)
       THEN /\ deathSeen' = None
            /\ UNCHANGED <<particles, pool, callDeaths, lifeDeaths>>
       ELSE removeDead(idx)
  /\ idx' = idx - 1
  /\ justSpawned' = None
  /\ advanced' = None
  /\ passes' = passes
  /\ UNCHANGED <<cfg, initDone, heap, startTime, lastUpdateTime, particlesToEmit,
                 now, pc, rnow, needsMorePasses, call>>

\* the end of Reset, after removeDeadParticles has returned
ResetFinish ==
  /\ pc = "reclaim"
  /\ idx = 0
  /\ call.op = "Reset"
  /\ initDone' = FALSE
  /\ particles' = <<>>
  /\ particlesToEmit' = 0
  /\ pc' = "idle"
  /\ rnow' = 0
  /\ Quiet
  /\ passes' = passes
  /\ UNCHANGED <<cfg, pool, heap, startTime, lastUpdateTime, now, idx,
                 needsMorePasses, call, callDeaths, lifeDeaths>>

\* ------------------------------------------------------------- spawnParticles
\* the emission credit with delta truncated to whole seconds
EmissionCreditWholeSeconds ==
  IF IsSet(cfg.EmissionRateOverTime)
    THEN Val(cfg.EmissionRateOverTime) * ((now - lastUpdateTime) \div Second) * Second
    ELSE 0

\* the emission credited by one call of spawnParticles, times Second
EmissionCredit ==
  IF IsSet(cfg.EmissionRateOverTime)
    THEN Val(cfg.EmissionRateOverTime) * (now - lastUpdateTime)
    ELSE 0

\* spawnParticles replacing what is pending by the emission when a rate is set
SpawnParticlesEnterCreditOnly ==
  /\ pc = "reclaim"
  /\ idx = 0
  /\ call.op = "Update"
  /\ particlesToEmit' =
       IF IsSet(cfg.EmissionRateOverTime) THEN EmissionCredit ELSE particlesToEmit
  /\ pc' = "emit"
  /\ Quiet
  /\ passes' = passes
  /\ UNCHANGED <<cfg, initDone, particles, pool, heap, startTime, lastUpdateTime,
                 now, rnow, idx, needsMorePasses, call, callDeaths, lifeDeaths>>

\* removeDeadParticles has returned to Update: the first statement of spawnParticles
SpawnParticlesEnter ==
  /\ pc = "reclaim"
  /\ idx = 0
  /\ call.op = "Update"
  /\ particlesToEmit' = particlesToEmit + EmissionCredit
  /\ call' = [call EXCEPT !.credited = EmissionCredit,
                          !.total = IF passes < MaxPasses THEN @ + EmissionCredit ELSE @]
  /\ pc' = "emit"
  /\ Quiet
  /\ passes' = passes
  /\ UNCHANGED <<cfg, initDone, particles, pool, heap, startTime, lastUpdateTime,
                 now, rnow, idx, needsMorePasses, callDeaths, lifeDeaths>>

\* the capacity test taking a MaxParticles that is not positive for no limit
CapReachedUnlessUnset == cfg.MaxParticles > 0 /\ Len(particles) >= cfg.MaxParticles

\* the capacity test off by one
CapReachedOffByOne == Len(particles) > cfg.MaxParticles

\* spawnParticle is refused when the live set is full
CapReached == Len(particles) >= cfg.MaxParticles

\* spawnParticle leaving the object it takes in the pool
spawnParticleKeepsPooled(o) ==
  /\ heap' = [heap EXCEPT ![o] = spawned(IF o \in pool THEN @ ELSE newParticle, now)]
  /\ pool' = pool
  /\ particles' = Append(particles, o)
  /\ lifeDeaths' = [lifeDeaths EXCEPT ![o] = 0]
  /\ justSpawned' = Some(o)

\* spawnParticle(now) taking the object o from the pool
spawnParticle(o) ==
  /\ heap' = [heap EXCEPT ![o] = spawned(IF o \in pool THEN @ ELSE newParticle, now)]
  /\ pool' = pool \ {o}
  /\ particles' = Append(particles, o)
  /\ lifeDeaths' = [lifeDeaths EXCEPT ![o] = 0]
  /\ justSpawned' = Some(o)

\* the loop of spawnParticles ending as soon as the live set is full
SpawnLoopStopsAtCap == particlesToEmit >= Second /\ ~CapReached

\* the loop of spawnParticles ending when exactly one particle is pending
SpawnLoopRunsAboveOne == particlesToEmit > Second

\* the condition of the loop of spawnParticles: one whole particle is pending
SpawnLoopRuns == particlesToEmit >= Second

\* one iteration of the loop of spawnParticles
SpawnStep ==
  /\ pc = "emit"
  /\ SpawnLoopRuns
  /\ IF CapReached
       THEN /\ justSpawned' = None
            /\ call' = [call EXCEPT !.refused = TRUE]
            /\ UNCHANGED <<heap, pool, particles, lifeDeaths>>
       ELSE /\ \E o \in PoolGet : spawnParticle(o)
            /\ call' = [call EXCEPT !.spawns = IF @ < MaxEmit THEN @ + 1 ELSE @]
  /\ particlesToEmit' = particlesToEmit - Second
  /\ deathSeen' = None
  /\ advanced' = None
  /\ passes' = passes
  /\ UNCHANGED <<cfg, initDone, startTime, lastUpdateTime, now, pc, rnow, idx,
                 needsMorePasses, callDeaths>>

\* spawnParticles has returned to Update: updateParticles starts
UpdateParticlesEnter ==
  /\ pc = "emit"
  /\ ~SpawnLoopRuns
  /\ pc' = "advance"
  /\ idx' = 1
  /\ needsMorePasses' = FALSE
  /\ Quiet
  /\ passes' = passes
  /\ UNCHANGED <<cfg, initDone, particles, pool, heap, startTime, lastUpdateTime,
                 particlesToEmit, now, rnow, call, callDeaths, lifeDeaths>>

\* ------------------------------------------------------------- updateParticles
\* one iteration of the loop of updateParticles
UpdateParticleStep ==
  /\ pc = "advance"
  /\ idx <= Len(particles)
  /\ LET o == particles[idx]
         p == update(heap[o], now)
     IN /\ heap' = [heap EXCEPT ![o] = p]
        /\ needsMorePasses' = (needsMorePasses \/ ~alive(p, now))
        /\ call' = [call EXCEPT !.dead = IF alive(p, now) THEN @ ELSE @ + 1]
        /\ advanced' = Some([p |-> o, before |-> heap[o],
                             log |-> updateStages(heap[o], now).log])
  /\ idx' = idx + 1
  /\ deathSeen' = None
  /\ justSpawned' = None
  /\ passes' = passes
  /\ UNCHANGED <<cfg, initDone, particles, pool, startTime, lastUpdateTime,
                 particlesToEmit, now, pc, rnow, callDeaths, lifeDeaths>>

\* NextPass setting the system's lastUpdateTime as it goes round
NextPassAdvancesTime ==
  /\ pc = "advance"
  /\ idx > Len(particles)
  /\ needsMorePasses
  /\ pc' = "reclaim"
  /\ idx' = Len(particles)
  /\ needsMorePasses' = FALSE
  /\ lastUpdateTime' = now
  /\ call' = [call EXCEPT !.prevDead = call.dead, !.dead = 0,
                          !.survivors = {o \in SeqToSet(particles) : alive(heap[o], now)}]
  /\ Quiet
  /\ passes' = IF passes < MaxPasses THEN passes + 1 ELSE MaxPasses
  /\ UNCHANGED <<cfg, initDone, particles, pool, heap, startTime,
                 particlesToEmit, now, rnow, callDeaths, lifeDeaths>>

\* updateParticles has returned true: the next pass of the loop of Update
NextPass ==
  /\ pc = "advance"
  /\ idx > Len(particles)
  /\ needsMorePasses
  /\ pc' = "reclaim"
  /\ idx' = Len(particles)
  /\ needsMorePasses' = FALSE
  /\ call' = [call EXCEPT !.prevDead = call.dead, !.dead = 0,
                          !.survivors = {o \in SeqToSet(particles) : alive(heap[o], now)}]
  /\ Quiet
  /\ passes' = IF passes < MaxPasses THEN passes + 1 ELSE MaxPasses
  /\ UNCHANGED <<cfg, initDone, particles, pool, heap, startTime, lastUpdateTime,
                 particlesToEmit, now, rnow, callDeaths, lifeDeaths>>

\* UpdateReturn dropping what is left of the emission accumulator
UpdateReturnDropsFraction ==
  /\ pc = "advance"
  /\ idx > Len(particles)
  /\ ~needsMorePasses
  /\ lastUpdateTime' = now
  /\ particlesToEmit' = 0
  /\ pc' = "idle"
  /\ idx' = 0
  /\ rnow' = 0
  /\ Quiet
  /\ passes' = passes
  /\ UNCHANGED <<cfg, initDone, particles, pool, heap, startTime,
                 now, needsMorePasses, call, callDeaths, lifeDeaths>>

\* UpdateReturn without the deferred function
UpdateReturnKeepsTime ==
  /\ pc = "advance"
  /\ idx > Len(particles)
  /\ ~needsMorePasses
  /\ lastUpdateTime' = lastUpdateTime
  /\ pc' = "idle"
  /\ idx' = 0
  /\ rnow' = 0
  /\ Quiet
  /\ passes' = passes
  /\ UNCHANGED <<cfg, initDone, particles, pool, heap, startTime, particlesToEmit,
                 now, needsMorePasses, call, callDeaths, lifeDeaths>>

\* updateParticles has returned false: Update returns, the deferred function runs
UpdateReturn ==
  /\ pc = "advance"
  /\ idx > Len(particles)
  /\ ~needsMorePasses
  /\ lastUpdateTime' = now
  /\ pc' = "idle"
  /\ idx' = 0
  /\ rnow' = 0
  /\ Quiet
  /\ passes' = passes
  /\ UNCHANGED <<cfg, initDone, particles, pool, heap, startTime, particlesToEmit,
                 now, needsMorePasses, call, callDeaths, lifeDeaths>>

\* ------------------------------------------------------------- specification
\* the steps of a running Update or Reset
Step ==
  \/ RemoveDeadStep
  \/ ResetFinish
  \/ SpawnParticlesEnter
  \/ SpawnStep
  \/ UpdateParticlesEnter
  \/ UpdateParticleStep
  \/ NextPass
  \/ UpdateReturn

Host ==
  \/ \E num \in 1..MaxEmit : Spawn(num)
  \/ \E o \in ObjIds : Kill(o)
  \/ \E t \in Times : UpdateCall(t)
  \/ \E w \in Times : ResetCall(w)
  \/ \E t \in Times : ForEachParticle(t)
  \/ NumParticlesCall
  \/ \E t \in Times : DurationCall(t)

Next == Host \/ Step

Spec == Init /\ [][Next]_vars

\* ------------------------------------------------------------- vectors and durations
\* A float64 component of a Vector is kept as a whole number of steps of 1/VecUnit,
\* as float64 keeps its smallest numbers as whole multiples of its smallest step: the
\* result of an operation is rounded to the nearest step (ties to the even one), so a
\* product below half a step is 0.
VecUnit == 4
\* the components of the vectors run from -VecMax to VecMax steps
VecMax == 3
\* the durations converted run from 0 to MaxNanos, and the 5000 of the test
MaxNanos == 6

Vectors == (-VecMax..VecMax) \X (-VecMax..VecMax)

\* n/d rounded to the nearest whole number, ties to the even one (d > 0)
RoundNearest(n, d) ==
  LET q == n \div d
      r == n % d
  IN IF 2 * r < d THEN q
     ELSE IF 2 * r > d THEN q + 1
     ELSE IF q % 2 = 0 THEN q ELSE q + 1

\* a * b, a / b and math.Sqrt(a) on steps
FMul(a, b) == RoundNearest(a * b, VecUnit)
FDiv(a, b) == IF b > 0 THEN RoundNearest(a * VecUnit, b) ELSE 0 - RoundNearest(a * VecUnit, 0 - b)
FSqrt(a) ==
  LET n == a * VecUnit
      r == CHOOSE k \in 0..(n + 1) : k * k <= n /\ (k + 1) * (k + 1) > n
  IN IF n - r * r <= (r + 1) * (r + 1) - n THEN r ELSE r + 1

\* Vector.Magnitude
Magnitude(v) == FSqrt(FMul(v[1], v[1]) + FMul(v[2], v[2]))

\* Vector.TryNormalize: the pair of its results
TryNormalize(v) ==
  LET m == Magnitude(v)
  IN IF m = 0 THEN <<v, FALSE>> ELSE <<<<FDiv(v[1], m), FDiv(v[2], m)>>, TRUE>>

\* Vector.Normalize: the vector returned, or the value it panics with
Normalize(v) ==
  LET r == TryNormalize(v)
  IN IF ~r[2] THEN [panic |-> "normalize zero vector", value |-> v]
     ELSE [panic |-> "", value |-> r[1]]

\* the values of NormalizedDuration, as fractions <<numerator, denominator>>, and of
\* the time.Duration converted, in nanoseconds
Fractions == {<<n, d>> \in (0..5) \X {1, 2, 5} : n <= d}
Nanos == (0..MaxNanos) \cup {5000}

\* the conversion rounding to the nearest nanosecond
RoundHalfUp(n, d) == (2 * n + d) \div (2 * d)

\* the conversion time.Duration(f) of a float64 f = n/d >= 0: the fraction is dropped
TruncToZero(n, d) == n \div d

\* NormalizedDuration.Duration: t.Duration(m)
NormalizedDuration_Duration(t, m) == TruncToZero(m * t[1], t[2])

\* the host calls v.TryNormalize(), v.Normalize() or t.Duration(m)
TryNormalizeCall(v) ==
  /\ call' = [NoCall EXCEPT !.op = "TryNormalize", !.arg = v, !.result = TryNormalize(v)]
  /\ UNCHANGED <<cfg, initDone, particles, pool, heap, startTime, lastUpdateTime,
                 particlesToEmit, now, pc, rnow, idx, needsMorePasses, deathSeen,
                 justSpawned, callDeaths, lifeDeaths, passes, advanced>>

NormalizeCall(v) ==
  /\ call' = [NoCall EXCEPT !.op = "Normalize", !.arg = v, !.result = Normalize(v)]
  /\ UNCHANGED <<cfg, initDone, particles, pool, heap, startTime, lastUpdateTime,
                 particlesToEmit, now, pc, rnow, idx, needsMorePasses, deathSeen,
                 justSpawned, callDeaths, lifeDeaths, passes, advanced>>

NormalizedDurationCall(t, m) ==
  /\ call' = [NoCall EXCEPT !.op = "NormalizedDuration.Duration", !.arg = <<t, m>>,
                            !.result = NormalizedDuration_Duration(t, m)]
  /\ UNCHANGED <<cfg, initDone, particles, pool, heap, startTime, lastUpdateTime,
                 particlesToEmit, now, pc, rnow, idx, needsMorePasses, deathSeen,
                 justSpawned, callDeaths, lifeDeaths, passes, advanced>>

\* the functions of vector.go and NormalizedDuration.Duration need no particle system:
\* PureSpec applies them to the values above
PureInit ==
  /\ Init
  /\ cfg = Merge([MaxParticles |-> 0, EmissionRateOverTime |-> None,
                  LifetimeOverTime |-> None, UpdateFunc |-> "nil"], BareProfile)

PureNext ==
  \/ \E v \in Vectors : TryNormalizeCall(v)
  \/ \E v \in Vectors : NormalizeCall(v)
  \/ \E t \in Fractions, m \in Nanos : NormalizedDurationCall(t, m)

PureSpec == PureInit /\ [][PureNext]_vars

\* A running call executes its next statement: Go runs Update and Reset to completion
\* on the calling goroutine. The systems of FairSpec hold at most one particle and
\* set no behaviour function of the particle's looks.
LiveInit ==
  /\ Init
  /\ cfg.MaxParticles <= 1
  /\ cfg.DeathFunc
  /\ ~IsSet(cfg.DataOverLifetime)

FairSpec == LiveInit /\ [][Next]_vars /\ WF_vars(Step)

\* ------------------------------------------------------------- a clock that goes back
\* a system that emits by rate, one particle at a time, with behaviour functions that
\* leave position and angle alone
RewindInit ==
  /\ Init
  /\ cfg.MaxParticles = 1
  /\ IsSet(cfg.EmissionRateOverTime)
  /\ cfg.DeathFunc
  /\ ~IsSet(cfg.DataOverLifetime)
  /\ ~IsSet(cfg.VelocityOverLifetime)
  /\ ~IsSet(cfg.RotationOverLifetime)

\* the host may also pass Update a time before the one it passed last
RewindNext == Next \/ \E t \in Times : UpdateRewind(t)

RewindSpec == RewindInit /\ [][RewindNext]_vars

\* ------------------------------------------------------------- a selective UpdateFunc
\* a system with room for two particles that spin by more than a turn a tick, fed by
\* Spawn, whose UpdateFunc kills a particle in the second half of its lifetime
HalfLifeInit ==
  /\ \E r \in Spins :
       cfg = Merge([MaxParticles |-> 2, EmissionRateOverTime |-> None,
                    LifetimeOverTime |-> Some(3), UpdateFunc |-> "killOld"],
                   SpinProfile(r))
  /\ NewSystem

HalfLifeSpec == HalfLifeInit /\ [][Next]_vars

\* ------------------------------------------------------------- negative Spawn requests
\* a system with room for one particle and no behaviour functions but DeathFunc
\* and UpdateFunc
DebitInit ==
  /\ Init
  /\ cfg.MaxParticles = 1
  /\ cfg.DeathFunc
  /\ ~IsSet(cfg.DataOverLifetime)
  /\ ~IsSet(cfg.VelocityOverLifetime)
  /\ ~IsSet(cfg.RotationOverLifetime)

\* the host may also pass Spawn a negative number
DebitNext == Next \/ \E num \in {-1} : SpawnNegative(num)

DebitSpec == DebitInit /\ [][DebitNext]_vars

\* ------------------------------------------------------------- claims
Max0(n) == IF n > 0 THEN n ELSE 0

Live == SeqToSet(particles)

RECURSIVE SumOver(_, _)
SumOver(f, S) ==
  IF S = {} THEN 0 ELSE LET o == CHOOSE q \in S : TRUE IN f[o] + SumOver(f, S \ {o})

\* DeathFunc invocations in the running or just returned call
DeathsInCall == SumOver(callDeaths, ObjIds)

Returned(op) == pc = "idle" /\ call.op = op

\* C1 as stated: in every state, also inside Update and Reset, NumParticles() is at
\* most MaxParticles.
CapacityAtMostN == NumParticles <= cfg.MaxParticles

\* C1 amended: in every state, also inside Update and Reset, NumParticles() is at
\* most MaxParticles, or 0 when MaxParticles is negative.
CapacityInvariant == NumParticles <= Max0(cfg.MaxParticles)

\* two particles were requested of a system with room for one: one was spawned, the
\* other refused, and the spawn loop has ended
CapacityWitness ==
  /\ pc = "advance"
  /\ cfg.MaxParticles = 1
  /\ call.emit >= 2 * Second
  /\ NumParticles = 1

\* C2 as stated: when the first Update of a system returns and the Spawn requests
\* before it totalled at least MaxParticles, NumParticles() equals MaxParticles.
SpawnFillsToN ==
  (Returned("Update") /\ call.first /\ call.emit >= cfg.MaxParticles * Second)
    => NumParticles = cfg.MaxParticles

\* a spawned particle is alive after its first advance
SpawnedSurvive ==
  /\ cfg.UpdateFunc # "killAll"
  /\ IsSet(cfg.LifetimeOverTime) => Val(cfg.LifetimeOverTime) > 0

\* C2 amended: when the first Update of a system returns and the Spawn requests
\* before it totalled at least MaxParticles >= 0, NumParticles() equals MaxParticles,
\* provided a spawned particle survives its first advance (its lifetime is positive
\* and UpdateFunc does not kill at age 0).
SpawnHonorsCapacity ==
  (/\ Returned("Update")
   /\ call.first
   /\ cfg.MaxParticles >= 0
   /\ call.emit >= cfg.MaxParticles * Second
   /\ SpawnedSurvive)
    => NumParticles = cfg.MaxParticles

\* three particles were requested of a system with room for two, and the first
\* Update has returned with two
SpawnWitness ==
  /\ Returned("Update")
  /\ call.first
  /\ cfg.MaxParticles = 2
  /\ call.emit = 3 * Second
  /\ NumParticles = 2

UpdateRunning == call.op = "Update" /\ pc # "idle"

\* C3 as stated: every Update that has started returns.
UpdateTerminates == [](UpdateRunning => <>(pc = "idle"))

\* every pass of the running Update credits at least one whole particle, there is
\* room for it, and it is dead after its first advance
RespawnDies ==
  /\ cfg.MaxParticles >= 1
  /\ EmissionCredit >= Second
  /\ \/ cfg.UpdateFunc = "killAll"
     \/ IsSet(cfg.LifetimeOverTime) /\ Val(cfg.LifetimeOverTime) <= 0

\* C3 amended: every Update that has started returns, unless each of its passes
\* credits at least one whole particle (rate * delta >= 1 with MaxParticles >= 1) and
\* the particle spawned is dead after its first advance (UpdateFunc kills at age 0,
\* or the lifetime is <= 0).
UpdateTerminatesUnlessRespawnDies ==
  []((UpdateRunning /\ ~RespawnDies) => <>(pc = "idle"))

\* an Update with a positive rate and a positive delta whose UpdateFunc killed a
\* particle has returned
TerminationWitness ==
  /\ Returned("Update")
  /\ call.delta > 0
  /\ IsSet(cfg.EmissionRateOverTime)
  /\ cfg.UpdateFunc = "killAged"
  /\ DeathsInCall >= 1

\* C4: when Update(now) has returned, every particle of the live set has isAlive set
\* and deathTime > now, and every particle that was in the live set at the call and
\* is not any more has had DeathFunc invoked during the call.
LiveSetAliveOnReturn ==
  Returned("Update") =>
    /\ \A o \in Live : heap[o].isAlive /\ heap[o].deathTime > now
    /\ cfg.DeathFunc => \A o \in SeqToSet(call.live) \ Live : callDeaths[o] >= 1

\* an Update has returned that removed one particle and left another in the live set
LiveSetWitness ==
  /\ Returned("Update")
  /\ cfg.DeathFunc
  /\ particles # <<>>
  /\ DeathsInCall >= 1
  /\ call.live # <<>>

\* C5: with a DeathFunc set, DeathFunc has been invoked for no particle of the live
\* set and exactly once, since it was last spawned, for every particle that has left
\* the live set.
DeathOncePerLife ==
  cfg.DeathFunc =>
    \A o \in ObjIds : lifeDeaths[o] = (IF o \in pool THEN 1 ELSE 0)

\* one particle has died and another one is in the live set
DeathOnceWitness ==
  /\ cfg.DeathFunc
  /\ pool # {}
  /\ particles # <<>>
  /\ Returned("Update")

\* C6: when DeathFunc(p) is invoked, by Update or by Reset, p has left the live set:
\* NumParticles() is one less than before the removal and ForEachParticle does not
\* visit p.
DeathFuncAfterRemoval ==
  deathSeen # None =>
    /\ ~Val(deathSeen).inLive
    /\ Val(deathSeen).num = Val(deathSeen).was - 1
    /\ Val(deathSeen).p \notin Live

\* DeathFunc is invoked for one of two live particles
DeathFuncWitness == deathSeen # None /\ Val(deathSeen).was = 2

\* C7: when Reset has returned, NumParticles() is 0, the emission accumulator is 0 and
\* DeathFunc was invoked during the call once for every particle that was in the live
\* set at the call and for no other, whatever the wall clock was.
ResetClearsState ==
  Returned("Reset") =>
    /\ NumParticles = 0
    /\ particlesToEmit = 0
    /\ cfg.DeathFunc =>
         \A o \in ObjIds : callDeaths[o] = (IF o \in SeqToSet(call.live) THEN 1 ELSE 0)

\* Reset has returned from a call with two live particles, one of them not yet dead
\* at the wall clock, and a pending accumulator
ResetWitness ==
  /\ Returned("Reset")
  /\ cfg.DeathFunc
  /\ Len(call.live) = 2
  /\ call.emit > 0
  /\ \E o \in SeqToSet(call.live) : heap[o].deathTime > MaxTime

\* C8: when Reset has returned the system is in the state of a freshly constructed
\* one: no particle, an empty accumulator, the initialisation re-armed, and whichever
\* object the next spawnParticle takes from the pool, the particle it spawns has the
\* fields of one spawned from a new object.
ResetRestoresFresh ==
  Returned("Reset") =>
    /\ particles = <<>>
    /\ particlesToEmit = 0
    /\ ~initDone
    /\ \A o \in pool : \A t \in Times : spawned(heap[o], t) = spawned(newParticle, t)

\* the position spawnParticle gives a particle
EmissionPosition ==
  IF IsSet(cfg.EmissionPositionOverTime)
    THEN <<Val(cfg.EmissionPositionOverTime)[1] * Second,
           Val(cfg.EmissionPositionOverTime)[2] * Second>>
    ELSE <<0, 0>>

\* C9: a particle that spawnParticle has just spawned, from a new or a recycled
\* object, has the emission position, velocity (0,0), scale (1,1), angle 0, colour
\* white, no data, and isAlive set.
RespawnStartsAtDefaults ==
  justSpawned # None =>
    LET p == heap[Val(justSpawned)]
    IN /\ <<p.x, p.y>> = EmissionPosition
       /\ <<p.xVelocity, p.yVelocity>> = <<0, 0>>
       /\ <<p.xScale, p.yScale>> = <<1, 1>>
       /\ p.angle = 0
       /\ p.color = White
       /\ p.data = None
       /\ p.isAlive

\* the case of C10: an Update that advances time, of a system with room for one
\* particle that holds one, with an emission rate and an UpdateFunc that kills at
\* normalized age > 0
KillRespawnCase ==
  /\ call.op = "Update"
  /\ call.delta > 0
  /\ cfg.MaxParticles = 1
  /\ Len(call.live) = 1
  /\ cfg.UpdateFunc = "killAged"
  /\ cfg.DeathFunc
  /\ IsSet(cfg.EmissionRateOverTime)

\* C10 as stated: in that case NumParticles() never exceeds 1 during the Update, and
\* when it returns DeathFunc was invoked exactly once and NumParticles() is 1.
KillThenRespawn ==
  KillRespawnCase =>
    /\ NumParticles <= 1
    /\ pc = "idle" => (NumParticles = 1 /\ DeathsInCall = 1)

\* C10 amended: the same, when rate * delta is at least one whole particle.
KillThenRespawnWholeCredit ==
  (KillRespawnCase /\ Val(cfg.EmissionRateOverTime) * call.delta >= Second) =>
    /\ NumParticles <= 1
    /\ pc = "idle" => (NumParticles = 1 /\ DeathsInCall = 1)

\* such an Update has returned after two passes: UpdateFunc killed the old particle
\* in the first, the second removed it and spawned its replacement
KillRespawnWitness ==
  /\ KillRespawnCase
  /\ Val(cfg.EmissionRateOverTime) * call.delta >= Second
  /\ passes = 2
  /\ pc = "idle"
  /\ NumParticles = 1
  /\ DeathsInCall = 1
  /\ \A o \in Live : heap[o].birthTime = now

\* no emission rate is set and less than one whole particle was pending at the call
NothingToEmit == ~IsSet(cfg.EmissionRateOverTime) /\ call.emit < Second

\* C11: when an Update returns, every particle the host had killed before it (isAlive
\* unset at the call, whatever its deathTime) has had DeathFunc invoked during the
\* call; with no emission rate and no pending Spawn it is not in the live set, and if
\* no other particle was due or killed by UpdateFunc, NumParticles() is its value at
\* the call minus the number of particles the host killed.
HostKillReclaimed ==
  Returned("Update") =>
    /\ \A o \in call.killed :
         /\ cfg.DeathFunc => callDeaths[o] >= 1
         /\ NothingToEmit => o \notin Live
    /\ (NothingToEmit /\ cfg.UpdateFunc = "nil" /\ call.due \subseteq call.killed)
         => NumParticles = Len(call.live) - Cardinality(call.killed)

\* the host killed one particle before its deathTime; the Update that followed, at a
\* time still before that deathTime, removed it with one DeathFunc invocation and
\* NumParticles() dropped by one
HostKillWitness ==
  /\ Returned("Update")
  /\ NothingToEmit
  /\ cfg.DeathFunc
  /\ cfg.UpdateFunc = "nil"
  /\ \E o \in call.killed :
       /\ call.killed = {o}
       /\ heap[o].deathTime > now
       /\ o \in pool
       /\ callDeaths[o] = 1
  /\ call.due = {}
  /\ NumParticles = Len(call.live) - 1

\* C12: when an Update(now) returns, of the particles that were in the live set at the
\* call and that nobody killed (the host did not, and no UpdateFunc is set), those
\* with now < deathTime are in the live set, untouched by DeathFunc, and those with
\* now >= deathTime have been removed with DeathFunc (such a particle is in the live
\* set only as a particle spawned anew by this Update).
LifetimeExpiry ==
  (Returned("Update") /\ cfg.UpdateFunc = "nil") =>
    \A o \in SeqToSet(call.live) \ call.killed :
      IF o \in call.due
        THEN /\ cfg.DeathFunc => callDeaths[o] >= 1
             /\ o \in Live => heap[o].birthTime = now
        ELSE /\ o \in Live
             /\ callDeaths[o] = 0
             /\ heap[o].birthTime + heap[o].lifetime > now

\* a particle that had survived an earlier Update was removed, with DeathFunc, by an
\* Update at exactly its deathTime
ExpiryWitness ==
  /\ Returned("Update")
  /\ cfg.UpdateFunc = "nil"
  /\ cfg.DeathFunc
  /\ call.delta > 0
  /\ \E o \in call.due \ call.killed :
       /\ heap[o].birthTime + heap[o].lifetime = now
       /\ heap[o].lifetime > 0
       /\ o \in pool
       /\ callDeaths[o] = 1

\* the velocity VelocityOverLifetime gives a particle
ConstantVelocity ==
  IF IsSet(cfg.VelocityOverLifetime) THEN Val(cfg.VelocityOverLifetime) ELSE <<0, 0>>

AngleInRange ==
  \A o \in Live : 0 <= heap[o].angle /\ heap[o].angle < TwoPi

\* C15: when the spawn loop of the first pass of an Update has ended, whether or not
\* the capacity refused any of its spawns, what is left of the accumulator is the
\* fraction below one whole particle of what was pending plus the emission; less than
\* one whole particle is pending in every later pass and when Update returns, and an
\* Update without emission rate has spawned at most the whole particles pending at the
\* call (none when none was pending), whatever capacity it freed.
DroppedSpawnsLost ==
  /\ (pc = "advance" /\ passes = 1) =>
        particlesToEmit = (call.emit + EmissionCredit) % Second
  /\ (pc = "advance" \/ Returned("Update")) => particlesToEmit < Second
  /\ (call.op = "Update" /\ ~IsSet(cfg.EmissionRateOverTime)) =>
        call.spawns <= call.emit \div Second

\* two particles were requested of a system with room for one; one spawn was refused,
\* the particle spawned died at once and a later pass removed it: the Update has
\* returned with room for a particle and the refused request was not served
DroppedSpawnWitness ==
  /\ Returned("Update")
  /\ ~IsSet(cfg.EmissionRateOverTime)
  /\ cfg.MaxParticles = 1
  /\ call.emit = 2 * Second
  /\ call.refused
  /\ call.spawns = 1
  /\ passes >= 2
  /\ NumParticles = 0
  /\ particlesToEmit = 0

\* the fields of the system and of its particles, without the histories
sysState ==
  <<cfg, initDone, particles, pool, heap, startTime, lastUpdateTime, particlesToEmit>>

\* C16: the step that arms the initialisation is an Update and sets startTime to its
\* argument; no step changes startTime while the initialisation stays armed; only
\* Reset disarms it; and Duration(now) of an initialised system returns now minus
\* that startTime.
StartTimeSingleAssignment ==
  /\ [][/\ (~initDone /\ initDone') => (call'.op = "Update" /\ startTime' = call'.arg)
        /\ (initDone /\ initDone') => startTime' = startTime
        /\ (initDone /\ ~initDone') => call'.op = "Reset"]_vars
  /\ []((call.op = "Duration" /\ initDone) => call.result = call.arg - startTime)

\* Duration(now) is called after a later Update than the one that set startTime
StartTimeWitness ==
  /\ call.op = "Duration"
  /\ initDone
  /\ lastUpdateTime > startTime
  /\ call.arg > lastUpdateTime
  /\ call.result = call.arg - startTime

ReadsChangeNothing ==
  [][call'.op \in {"ForEachParticle", "NumParticles", "Duration"}
       => UNCHANGED sysState]_vars

\* ForEachParticle has visited a particle at a time after the last Update, with a
\* Spawn request pending
ReadsWitness ==
  /\ call.op = "ForEachParticle"
  /\ Len(call.visits) = 1
  /\ call.arg > lastUpdateTime
  /\ particlesToEmit >= Second
  /\ heap[call.visits[1].p].lastUpdateTime = lastUpdateTime

\* the particles the live set has room for once the first removeDeadParticles of the
\* running Update has returned
RoomAfterReclaim == Max0(cfg.MaxParticles - (Len(particles) - call.spawns))

MisconfigurationTolerated ==
  /\ [](cfg.MaxParticles <= 0 => NumParticles = 0)
  /\ []((cfg.MaxParticles <= 0 /\ UpdateRunning) => <>(pc = "idle"))

\* an Update of a system with a negative MaxParticles and an emission rate has
\* returned: it refused the particles requested and emitted
MisconfigurationWitness ==
  /\ Returned("Update")
  /\ cfg.MaxParticles < 0
  /\ IsSet(cfg.EmissionRateOverTime)
  /\ call.delta > 0
  /\ call.emit >= Second
  /\ call.refused
  /\ NumParticles = 0

\* C21: TryNormalize of the zero vector returns it unchanged with false, and of every
\* other vector returns true; Normalize of the zero vector panics with the
\* normalize-zero-vector error, and of every other vector returns the vector
\* TryNormalize returns, without a panic.
NormalizeZeroVector ==
  /\ call.op = "TryNormalize" =>
        IF call.arg = <<0, 0>> THEN call.result = <<call.arg, FALSE>>
        ELSE call.result[2]
  /\ call.op = "Normalize" =>
        IF call.arg = <<0, 0>> THEN call.result.panic = "normalize zero vector"
        ELSE call.result.panic = "" /\ call.result.value = TryNormalize(call.arg)[1]

\* C22 as stated: t.Duration(m) is t times m.
DurationIsProduct ==
  call.op = "NormalizedDuration.Duration" =>
    call.result * call.arg[1][2] = call.arg[1][1] * call.arg[2]

\* C22 amended: t.Duration(m), for a fraction t >= 0, is the largest whole number of
\* nanoseconds that is not more than t times m: 0 for t = 0, m for t = 1, and 1000 for
\* t = 0.2 and m = 5000.
DurationIsTruncatedProduct ==
  call.op = "NormalizedDuration.Duration" =>
    LET num == call.arg[1][1]
        den == call.arg[1][2]
        m == call.arg[2]
    IN /\ den * call.result <= num * m
       /\ num * m < den * (call.result + 1)
       /\ num = 0 => call.result = 0
       /\ num = den => call.result = m
       /\ (num = 1 /\ den = 5 /\ m = 5000) => call.result = 1000

\* NormalizedDuration(0.2).Duration(5000) has returned 1000
DurationWitness ==
  /\ call.op = "NormalizedDuration.Duration"
  /\ call.arg = <<<<1, 5>>, 5000>>
  /\ call.result = 1000

\* C23: when DeathFunc is invoked during Update(now), the particle it is invoked for
\* has been advanced to now: its lastUpdateTime is now and its position is the
\* emission position plus the velocity times its age at now.
FinalUpdateBeforeRemoval ==
  (deathSeen # None /\ call.op = "Update") =>
    LET p == heap[Val(deathSeen).p]
        D == now - p.birthTime
    IN /\ p.lastUpdateTime = now
       /\ <<p.x, p.y>> = <<EmissionPosition[1] + ConstantVelocity[1] * D,
                           EmissionPosition[2] + ConstantVelocity[2] * D>>

\* C25: when DeathFunc(p) is invoked, p is neither in the live set nor in the pool.
DeathFuncBeforePoolReturn ==
  deathSeen # None => (~Val(deathSeen).inLive /\ ~Val(deathSeen).inPool)

\* C27: the particle spawnParticle has just spawned during Update(now) has the
\* lifetime LifetimeOverTime returns, or one second when it is unset, birthTime = now,
\* deathTime = now + lifetime, lastUpdateTime = now, the position
\* EmissionPositionOverTime returns, or (0,0) when it is unset, and is the last
\* element of the live set, which holds it once.
SpawnTimeState ==
  justSpawned # None =>
    LET o == Val(justSpawned)
        p == heap[o]
    IN /\ p.lifetime =
            (IF IsSet(cfg.LifetimeOverTime) THEN Val(cfg.LifetimeOverTime) ELSE Second)
       /\ p.birthTime = now
       /\ p.deathTime = now + p.lifetime
       /\ p.lastUpdateTime = now
       /\ <<p.x, p.y>> = EmissionPosition
       /\ particles # <<>>
       /\ particles[Len(particles)] = o
       /\ Cardinality({i \in 1..Len(particles) : particles[i] = o}) = 1

\* a recycled object, moved and turned in its previous life, has just been spawned at
\* (17, 23) as the second particle of the live set, later than the first Update
SpawnTimeWitness ==
  /\ justSpawned # None
  /\ cfg.EmissionPositionOverTime = Some(<<17, 23>>)
  /\ now > startTime
  /\ Len(particles) = 2
  /\ heap[Val(justSpawned)].angle # 0

\* the advance step of the running pass has gone through the live set
PassDone == call.op = "Update" /\ pc = "advance" /\ idx > Len(particles)

FractionCarriesOver ==
  /\ (/\ Idle
      /\ initDone
      /\ IsSet(cfg.EmissionRateOverTime)
      /\ cfg.UpdateFunc = "nil"
      /\ SpawnedSurvive)
       => particlesToEmit % Second
            = (Val(cfg.EmissionRateOverTime) * (lastUpdateTime - startTime)) % Second
  /\ (/\ Returned("Update")
      /\ passes = 1
      /\ IsSet(cfg.EmissionRateOverTime))
       => call.spawns
            = Min({(call.emit + Val(cfg.EmissionRateOverTime) * call.delta) \div Second,
                   RoomAfterReclaim})

FractionWitness ==
  /\ Returned("Update")
  /\ cfg.EmissionRateOverTime = Some(1)
  /\ call.delta = 1
  /\ call.emit = 1
  /\ call.spawns = 1
  /\ particlesToEmit = 0
  /\ passes = 1

\* the behaviour functions in the order of the statements of Particle.update
UpdateOrder ==
  <<"UpdateFunc", "DataOverLifetime", "VelocityOverLifetime", "ScaleOverLifetime",
    "RotationOverLifetime", "ColorOverLifetime">>

OrderIndex(fn) == CHOOSE i \in 1..Len(UpdateOrder) : UpdateOrder[i] = fn

\* the behaviour functions the system has set
ConfiguredFns ==
  {fn \in SeqToSet(UpdateOrder) :
     \/ fn = "UpdateFunc" /\ cfg.UpdateFunc # "nil"
     \/ fn = "DataOverLifetime" /\ IsSet(cfg.DataOverLifetime)
     \/ fn = "VelocityOverLifetime" /\ IsSet(cfg.VelocityOverLifetime)
     \/ fn = "ScaleOverLifetime" /\ IsSet(cfg.ScaleOverLifetime)
     \/ fn = "RotationOverLifetime" /\ IsSet(cfg.RotationOverLifetime)
     \/ fn = "ColorOverLifetime" /\ IsSet(cfg.ColorOverLifetime)}

\* C26: in one Particle.update(now) the configured functions are invoked in the order
\* UpdateFunc, DataOverLifetime, VelocityOverLifetime, ScaleOverLifetime,
\* RotationOverLifetime, ColorOverLifetime, each set one once, also when UpdateFunc
\* has killed the particle, which changes only isAlive; the position is integrated
\* after VelocityOverLifetime and before ScaleOverLifetime, with the velocity of this
\* call; every function still sees the old lastUpdateTime, which is now afterwards.
FixedUpdateOrder ==
  advanced # None =>
    LET a == Val(advanced)
        before == a.before
        after == heap[a.p]
        log == a.log
        delta == now - before.lastUpdateTime
    IN /\ \A i, j \in 1..Len(log) :
            i < j => OrderIndex(log[i].fn) < OrderIndex(log[j].fn)
       /\ {log[i].fn : i \in 1..Len(log)} = ConfiguredFns
       /\ \A i \in 1..Len(log) :
            /\ log[i].sees.lastUpdateTime = before.lastUpdateTime
            /\ log[i].fn = "UpdateFunc" => log[i].sees = before
            /\ log[i].fn # "UpdateFunc" =>
                 log[i].sees.isAlive = after.isAlive
            /\ log[i].fn = "DataOverLifetime" =>
                 [log[i].sees EXCEPT !.isAlive = before.isAlive] = before
            /\ log[i].fn \in {"DataOverLifetime", "VelocityOverLifetime"} =>
                 (log[i].sees.x = before.x /\ log[i].sees.y = before.y)
            /\ log[i].fn \in {"ScaleOverLifetime", "RotationOverLifetime",
                              "ColorOverLifetime"} =>
                 (log[i].sees.x = after.x /\ log[i].sees.y = after.y)
       /\ after.x = before.x + after.xVelocity * delta
       /\ after.y = before.y + after.yVelocity * delta
       /\ IsSet(cfg.VelocityOverLifetime) =>
            <<after.xVelocity, after.yVelocity>> = Val(cfg.VelocityOverLifetime)
       /\ after.lastUpdateTime = now

UpdateOrderWitness ==
  /\ advanced # None
  /\ Len(Val(advanced).log) = Len(UpdateOrder)
  /\ Val(advanced).before.isAlive
  /\ ~heap[Val(advanced).p].isAlive
  /\ now > Val(advanced).before.lastUpdateTime
  /\ heap[Val(advanced).p].x # Val(advanced).before.x

\* C28: when the Update(now) that spawned a particle returns, the particle has been
\* advanced with age 0 and delta 0: its data, velocity, scale and colour are those of
\* the configured functions, its position is the emission position and its angle is
\* the one it was spawned with; at spawn time those fields hold the reset defaults.
FirstAdvance ==
  /\ justSpawned # None =>
       LET p == heap[Val(justSpawned)]
       IN /\ p.data = None
          /\ <<p.xVelocity, p.yVelocity>> = <<0, 0>>
          /\ <<p.xScale, p.yScale>> = <<1, 1>>
          /\ p.color = White
  /\ (advanced # None /\ Val(advanced).before.birthTime = now) =>
       LET before == Val(advanced).before
           after == heap[Val(advanced).p]
       IN /\ before.lastUpdateTime = now
          /\ duration(before, now) = 0
          /\ <<after.x, after.y>> = <<before.x, before.y>>
          /\ after.angle = before.angle
  /\ Returned("Update") =>
       \A o \in Live :
         heap[o].birthTime = now =>
           /\ heap[o].lastUpdateTime = now
           /\ <<heap[o].x, heap[o].y>> = EmissionPosition
           /\ IsSet(cfg.DataOverLifetime) => heap[o].data = cfg.DataOverLifetime
           /\ IsSet(cfg.VelocityOverLifetime) =>
                <<heap[o].xVelocity, heap[o].yVelocity>> = Val(cfg.VelocityOverLifetime)
           /\ IsSet(cfg.ScaleOverLifetime) =>
                <<heap[o].xScale, heap[o].yScale>> = Val(cfg.ScaleOverLifetime)
           /\ IsSet(cfg.ColorOverLifetime) => heap[o].color = Val(cfg.ColorOverLifetime)

\* C29: an Update(now) with now at or before the system's lastUpdateTime adds nothing
\* to the emission accumulator for the rate, and the accumulator is never negative.
NoEmissionOnRewind ==
  /\ particlesToEmit >= 0
  /\ (/\ call.op = "Update"
      /\ call.delta <= 0
      /\ pc = "emit"
      /\ passes = 1
      /\ call.spawns = 0
      /\ ~call.refused)
       => particlesToEmit = call.emit

\* C31 as stated: when an Update returns, the emission accumulator is at least 0 and
\* below one particle.
AccumulatorInUnitRange ==
  Returned("Update") => (0 <= particlesToEmit /\ particlesToEmit < Second)

\* C31 amended: when an Update returns, the emission accumulator is below one
\* particle, however full the live set is, and it is at least 0 if it was at least 0
\* when Update was called; a negative accumulator, which only Spawn with a negative
\* number makes, grows by the rate's credit alone.
AccumulatorBelowOne ==
  Returned("Update") =>
    /\ particlesToEmit < Second
    /\ call.emit >= 0 => particlesToEmit >= 0
    /\ (call.emit < 0 /\ passes = 1) =>
         LET credited == call.emit + (IF IsSet(cfg.EmissionRateOverTime)
                                       THEN Val(cfg.EmissionRateOverTime) * call.delta
                                       ELSE 0)
         IN particlesToEmit = IF credited < 0 THEN credited ELSE credited % Second

AccumulatorWitness ==
  /\ Returned("Update")
  /\ call.emit >= 2 * Second
  /\ call.refused
  /\ Len(particles) = cfg.MaxParticles
  /\ particlesToEmit = 0

\* rate * delta of the running or just returned Update, times Second
FrameEmission ==
  IF IsSet(cfg.EmissionRateOverTime)
    THEN Val(cfg.EmissionRateOverTime) * call.delta
    ELSE 0

\* spawnParticles has made the credit of the running pass
Credited == call.op = "Update" /\ pc \in {"emit", "advance", "idle"}

\* C32: the system's lastUpdateTime changes only when Update returns, so every pass
\* of one Update(now) sees the same delta and adds rate * delta to the accumulator
\* again: an Update of k passes has credited k times rate * delta.
EveryPassCredits ==
  /\ (call.op = "Update" /\ ~Idle /\ ~call.first) => now - lastUpdateTime = call.delta
  /\ Credited => call.credited = FrameEmission
  /\ (Credited /\ passes < MaxPasses) => call.total = passes * FrameEmission

EveryPassCreditsWitness ==
  /\ Returned("Update")
  /\ passes = 2
  /\ call.delta > 0
  /\ IsSet(cfg.EmissionRateOverTime)
  /\ call.total = 2 * FrameEmission
  /\ call.spawns >= 2

\* C33: in the second and later passes of one Update(now) a particle that survived
\* the pass before is advanced with delta 0: the configured functions are invoked
\* again, and its position and its angle stay as they were.
LaterPassesDoNotIntegrate ==
  (/\ advanced # None
   /\ call.op = "Update"
   /\ passes >= 2
   /\ Val(advanced).p \in call.survivors) =>
    LET before == Val(advanced).before
        after == heap[Val(advanced).p]
        log == Val(advanced).log
    IN /\ before.lastUpdateTime = now
       /\ {log[i].fn : i \in 1..Len(log)} = ConfiguredFns
       /\ <<after.x, after.y>> = <<before.x, before.y>>
       /\ after.angle = before.angle

\* C34: when Update(now) has returned, the lastUpdateTime of the system and of every
\* particle of the live set is now, whichever pass spawned the particle.
UpdateTimesAreNow ==
  Returned("Update") =>
    /\ lastUpdateTime = call.arg
    /\ \A o \in Live : heap[o].lastUpdateTime = call.arg

UpdateTimesWitness ==
  /\ Returned("Update")
  /\ passes = 2
  /\ call.delta > 0
  /\ call.live # <<>>
  /\ \E o \in Live : heap[o].birthTime = now /\ o \in SeqToSet(call.live)

\* C35: no particle object occurs twice in the live set, and none is in the live set
\* and in the pool at once.
ExclusiveOwnership ==
  /\ \A i, j \in 1..Len(particles) : particles[i] = particles[j] => i = j
  /\ Live \cap pool = {}

ExclusiveOwnershipWitness ==
  /\ Len(particles) = 2
  /\ pool = {}
  /\ call.op = "Update"
  /\ justSpawned # None
  /\ initDone
  /\ \E o \in Live : callDeaths[o] > 0

====
